---- MODULE Spec2Model ----
(***************************************************************************)
(* Model of bf_compiler.py: parse (source text -> nested list), bf_to_ir   *)
(* (nested list -> LLVM IR for main), and the execution of the generated   *)
(* main over its 30000-byte tape, its i16 index, getchar and putchar.      *)
(*                                                                         *)
(* Source text is a sequence of one-character strings.  i8 and i16 values  *)
(* are kept as bit patterns (0..255, 0..65535); Signed gives the value the *)
(* signed LLVM instructions see.  The basic blocks of main are laid out in *)
(* one sequence of operations in the order the builder fills them; a       *)
(* branch carries the position of the block it targets.                    *)
(***************************************************************************)
EXTENDS Integers, Sequences, FiniteSets, TLC

VARIABLES src, stdin, phase, ast, prog, pc, index, tape, out, rd, status, steps

vars == <<src, stdin, phase, ast, prog, pc, index, tape, out, rd, status, steps>>

----------------------------------------------------------------------------
(* Bounds *)

MaxLen == 4        \* longest enumerated source text
MaxSteps == 200    \* most operations of main executed in one run

(* Program constants *)

TAPE_SIZE == 30000
eof == -1

----------------------------------------------------------------------------
(* Inputs *)

Alphabet == {"+", "-", "<", ">", ".", ",", "[", "]", "x"}

Strings == UNION {[1..n -> Alphabet] : n \in 0..MaxLen}

\* ++++++++[>++++++++<-]>+.
SrcA == <<"+","+","+","+","+","+","+","+","[",">","+","+","+","+","+","+",
          "+","+","<","-","]",">","+",".">>

Scenarios ==
  { SrcA,
    <<"+","[","[","-","]","]">>,
    <<"[","[","+","]","]",".">>,
    <<"+","[","-","]","+","[","-","]",".">>,
    <<"+","+","[",">","+","[","-","]","+","[","-","]","<","-","]",".">>,
    <<"+","[","-","[","x","]","]","]","+",".">>,
    <<"-","[","[","-","]",">","]","<">>,
    <<"[","x","[","+","]","x","]","x","]","[">>,
    <<"x","+","[","-","[","x","+","]","x","]",".">>,
    <<"<","+",".">>,
    <<",","[",".","-","]">> }

IOScenarios ==
  { <<",",".">>,
    <<",","+",".">>,
    <<",","-",".">>,
    <<"+",",",".">>,
    <<">",",","+","<",".">>,
    <<">",">",",","-",">","<",".">>,
    <<",","[","-","]">>,
    <<",","[",">","+","<","-","]",">",".">>,
    <<",",">",",","<",".",">",".">>,
    <<",",",",".">> }

Bytes == 0..255

Stdins == {<<>>, <<97>>}

IOStdins == {<<>>} \cup {<<b>> : b \in Bytes}

----------------------------------------------------------------------------
(* Integer helpers *)

Signed(v, bits) == IF v >= 2^(bits - 1) THEN v - 2^bits ELSE v

Wrap(v, bits) == v % (2^bits)

\* LLVM srem: remainder with the sign of the dividend (b > 0 here)
SRem(a, b) == IF a >= 0 THEN a % b ELSE -((-a) % b)

ZExt(v, bits) == v % (2^bits)

Trunc(v, bits) == v % (2^bits)

----------------------------------------------------------------------------
(* parse *)

Leaf(c) == [leaf |-> TRUE, c |-> c, body |-> <<>>]

Loop(b) == [leaf |-> FALSE, c |-> "", body |-> b]

\* parse with an else branch that keeps only the six primitive characters
RECURSIVE parse_filtering(_, _, _)
parse_filtering(bf, i, result) ==
  IF i > Len(bf) THEN [result |-> result, pos |-> i]
  ELSE LET c == bf[i] IN
    IF c = "[" THEN
      LET inner == parse_filtering(bf, i + 1, <<>>)
      IN  parse_filtering(bf, inner.pos, Append(result, Loop(inner.result)))
    ELSE IF c = "]" THEN [result |-> result, pos |-> i + 1]
    ELSE IF c \in {"+", "-", "<", ">", ".", ","}
      THEN parse_filtering(bf, i + 1, Append(result, Leaf(c)))
      ELSE parse_filtering(bf, i + 1, result)

\* parse that skips a closing marker met by the outermost call (i.e. with
\* nothing open before it) instead of ending there
RECURSIVE parse_skipping(_, _, _)
parse_skipping(bf, i, result) ==
  IF i > Len(bf) THEN [result |-> result, pos |-> i]
  ELSE LET c == bf[i]
           opens == Cardinality({j \in 1..(i - 1) : bf[j] = "["})
           closes == Cardinality({j \in 1..(i - 1) : bf[j] = "]"})
       IN
    IF c = "[" THEN
      LET inner == parse_skipping(bf, i + 1, <<>>)
      IN  parse_skipping(bf, inner.pos, Append(result, Loop(inner.result)))
    ELSE IF c = "]" THEN
      IF opens <= closes THEN parse_skipping(bf, i + 1, result)
      ELSE [result |-> result, pos |-> i + 1]
    ELSE parse_skipping(bf, i + 1, Append(result, Leaf(c)))

\* the for loop of parse over the shared iterator: i is the iterator's
\* position, result the list built so far; returns the list and the position
\* the iterator is left at
RECURSIVE parse(_, _, _)
parse(bf, i, result) ==
  IF i > Len(bf) THEN [result |-> result, pos |-> i]
  ELSE LET c == bf[i] IN
    IF c = "[" THEN
      LET inner == parse(bf, i + 1, <<>>)
      IN  parse(bf, inner.pos, Append(result, Loop(inner.result)))
    ELSE IF c = "]" THEN [result |-> result, pos |-> i + 1]
    ELSE parse(bf, i + 1, Append(result, Leaf(c)))

----------------------------------------------------------------------------
(* bf_to_ir *)

Op(o, a, b) == [op |-> o, a |-> a, b |-> b]

RECURSIVE compile_instruction(_, _)
RECURSIVE compile_block(_, _)

\* compile_instruction whose loop is entered at body instead of preloop
compile_instruction_dowhile(instruction, base) ==
  IF ~instruction.leaf THEN
    LET preloop == base + 1
        body == base + 2
        inner == compile_block(instruction.body, body)
        postloop == body + Len(inner) + 1
    IN  <<Op("br", body, 0), Op("cbranch", postloop, body)>>
          \o inner \o <<Op("br", preloop, 0)>>
  ELSE IF instruction.c \in {"+", "-", ">", "<", ".", ","}
    THEN <<Op(instruction.c, 0, 0)>>
    ELSE <<>>

\* the operations emitted for one instruction when the next free position
\* is base.  A loop closes the current block with a branch to preloop, then
\* lays out preloop (load, icmp, cbranch), body (the inner instructions and
\* the branch back to preloop) and leaves the builder at postloop.
compile_instruction(instruction, base) ==
  IF ~instruction.leaf THEN
    LET preloop == base + 1
        body == base + 2
        inner == compile_block(instruction.body, body)
        postloop == body + Len(inner) + 1
    IN  <<Op("br", preloop, 0), Op("cbranch", postloop, body)>>
          \o inner \o <<Op("br", preloop, 0)>>
  ELSE IF instruction.c \in {"+", "-"} THEN <<Op(instruction.c, 0, 0)>>
  ELSE IF instruction.c \in {">", "<"} THEN <<Op(instruction.c, 0, 0)>>
  ELSE IF instruction.c = "." THEN <<Op(".", 0, 0)>>
  ELSE IF instruction.c = "," THEN <<Op(",", 0, 0)>>
  ELSE <<>>

\* "for inner_instruction in instruction: compile_instruction(...)"
compile_block(nodes, base) ==
  IF nodes = <<>> THEN <<>>
  ELSE LET first == compile_instruction(Head(nodes), base)
       IN  first \o compile_block(Tail(nodes), base + Len(first))

\* bf_to_ir returning a non-zero status
bf_to_ir_ret1(tree) == compile_block(tree, 1) \o <<Op("ret", 1, 0)>>

bf_to_ir(tree) == compile_block(tree, 1) \o <<Op("ret", 0, 0)>>

----------------------------------------------------------------------------
(* the generated main *)

EmptyTape == [j \in {} |-> 0]

\* the tape is zero-filled by bzero; only non-zero cells are recorded
Cell(t, i) == IF i \in DOMAIN t THEN t[i] ELSE 0

SetCell(t, i, v) ==
  IF v = 0 THEN [j \in (DOMAIN t) \ {i} |-> t[j]]
  ELSE [j \in (DOMAIN t) \cup {i} |-> IF j = i THEN v ELSE t[j]]

\* get_tape_location: load index, zext to i32, gep into the tape
get_tape_location(idx) == ZExt(idx, 16)

\* cell arithmetic that saturates at the signed i8 limits
CellArith_saturating(v, instr) ==
  LET s == Signed(v, 8)
      r == IF instr = "+" THEN s + 1 ELSE s - 1
  IN  IF r > 127 THEN 127 ELSE IF r < -128 THEN 128 ELSE Wrap(r, 8)

\* cell arithmetic that adds for both instructions
CellArith_addonly(v, instr) == Wrap(Signed(v, 8) + 1, 8)

\* sadd_with_overflow / ssub_with_overflow on i8, element 0 of the result
CellArith(v, instr) ==
  LET s == Signed(v, 8)
      r == IF instr = "+" THEN s + 1 ELSE s - 1
  IN  Wrap(r, 8)

\* add/sub nuw nsw on i16: TRUE when the result is poison
MovePoison(v, instr) ==
  IF instr = ">"
  THEN v + 1 >= 2^16 \/ Signed(v, 16) + 1 > 2^15 - 1
  ELSE v - 1 < 0 \/ Signed(v, 16) - 1 < -(2^15)

\* the values the index may hold after a move whose add/sub is poison: the
\* branch on the poison comparison may take either arm (then: TAPE_SIZE-1;
\* otherwise: the remainder of the wrapped value taken as unsigned), or the
\* store of a poison value may be dropped
PoisonIndex(v, instr) ==
  LET w == Wrap(IF instr = ">" THEN v + 1 ELSE v - 1, 16)
  IN  {TAPE_SIZE - 1, w % TAPE_SIZE, v}

\* srem by TAPE_SIZE, icmp with -1, if_else storing into index
MoveStore(v, instr) ==
  LET w == Wrap(IF instr = ">" THEN v + 1 ELSE v - 1, 16)
      r == SRem(Signed(w, 16), TAPE_SIZE)
      underflow == (r = -1)
  IN  IF underflow THEN Wrap(TAPE_SIZE - 1, 16) ELSE Wrap(r, 16)

MoveIndex(v, instr) ==
  IF MovePoison(v, instr) THEN PoisonIndex(v, instr) ELSE {MoveStore(v, instr)}

\* getchar: the next byte of stdin, EOF once it is exhausted
getchar(in, n) == IF n < Len(in) THEN in[n + 1] ELSE eof

\* input without the end-of-input arm
InputStore_noeof(char) == Trunc(char, 8)

\* icmp with eof, if_else storing zero8 or the truncated character
InputStore(char) == IF char = eof THEN 0 ELSE Trunc(char, 8)

\* sign extension of the loaded cell
putchar_arg_sext(v) == Signed(v, 8)

\* zext of the loaded cell to i32, passed to putchar
putchar_arg(v) == ZExt(v, 8)

----------------------------------------------------------------------------
(* State machine *)

InitRest ==
  /\ phase = "start"
  /\ ast = <<>>
  /\ prog = <<>>
  /\ pc = 0
  /\ index = 0
  /\ tape = EmptyTape
  /\ out = <<>>
  /\ rd = 0
  /\ status = -1
  /\ steps = 0

Init ==
  /\ src \in Strings \cup Scenarios
  /\ stdin \in Stdins
  /\ InitRest

InitLive ==
  /\ src \in Scenarios
  /\ stdin \in Stdins
  /\ InitRest

InitIO ==
  /\ src \in IOScenarios
  /\ stdin \in IOStdins
  /\ InitRest

\* bf_to_ir: ast = parse(bf)
Parse ==
  /\ phase = "start"
  /\ ast' = parse(src, 1, <<>>).result
  /\ phase' = "parsed"
  /\ UNCHANGED <<src, stdin, prog, pc, index, tape, out, rd, status, steps>>

\* bf_to_ir: entry block (index = 0, tape zeroed), the instructions, ret
Lower ==
  /\ phase = "parsed"
  /\ prog' = bf_to_ir(ast)
  /\ pc' = 1
  /\ index' = 0
  /\ tape' = EmptyTape
  /\ phase' = "run"
  /\ UNCHANGED <<src, stdin, ast, out, rd, status, steps>>

Running(o) ==
  /\ phase = "run"
  /\ steps < MaxSteps
  /\ pc \in 1..Len(prog)
  /\ prog[pc].op \in o

ExecCell ==
  /\ Running({"+", "-"})
  /\ LET location == get_tape_location(index)
         value == Cell(tape, location)
     IN  tape' = SetCell(tape, location, CellArith(value, prog[pc].op))
  /\ pc' = pc + 1
  /\ steps' = steps + 1
  /\ UNCHANGED <<src, stdin, phase, ast, prog, index, out, rd, status>>

ExecMove ==
  /\ Running({">", "<"})
  /\ index' \in MoveIndex(index, prog[pc].op)
  /\ pc' = pc + 1
  /\ steps' = steps + 1
  /\ UNCHANGED <<src, stdin, phase, ast, prog, tape, out, rd, status>>

ExecOutput ==
  /\ Running({"."})
  /\ LET location == get_tape_location(index)
     IN  out' = Append(out, putchar_arg(Cell(tape, location)))
  /\ pc' = pc + 1
  /\ steps' = steps + 1
  /\ UNCHANGED <<src, stdin, phase, ast, prog, index, tape, rd, status>>

ExecInput ==
  /\ Running({","})
  /\ LET location == get_tape_location(index)
         char == getchar(stdin, rd)
     IN  tape' = SetCell(tape, location, InputStore(char))
  /\ rd' = rd + 1
  /\ pc' = pc + 1
  /\ steps' = steps + 1
  /\ UNCHANGED <<src, stdin, phase, ast, prog, index, out, status>>

\* preloop block: load the cell, compare with zero8, cbranch
ExecPreloop ==
  /\ Running({"cbranch"})
  /\ LET location == get_tape_location(index)
         is_zero == (Cell(tape, location) = 0)
     IN  pc' = IF is_zero THEN prog[pc].a ELSE prog[pc].b
  /\ steps' = steps + 1
  /\ UNCHANGED <<src, stdin, phase, ast, prog, index, tape, out, rd, status>>

\* an unconditional branch: into preloop from the block before the loop,
\* and back to preloop at the end of the body
ExecBranch ==
  /\ Running({"br"})
  /\ pc' = prog[pc].a
  /\ steps' = steps + 1
  /\ UNCHANGED <<src, stdin, phase, ast, prog, index, tape, out, rd, status>>

ExecRet ==
  /\ Running({"ret"})
  /\ status' = prog[pc].a
  /\ phase' = "halted"
  /\ steps' = steps + 1
  /\ UNCHANGED <<src, stdin, ast, prog, pc, index, tape, out, rd>>

Next ==
  \/ Parse
  \/ Lower
  \/ ExecCell
  \/ ExecMove
  \/ ExecOutput
  \/ ExecInput
  \/ ExecPreloop
  \/ ExecBranch
  \/ ExecRet

Spec == Init /\ [][Next]_vars

LiveSpec == InitLive /\ [][Next]_vars /\ WF_vars(Next)

SpecIO == InitIO /\ [][Next]_vars

TypeOK ==
  /\ phase \in {"start", "parsed", "run", "halted"}
  /\ index \in 0..(TAPE_SIZE - 1)
  /\ \A j \in DOMAIN tape : tape[j] \in 1..255
  /\ steps \in 0..MaxSteps

----------------------------------------------------------------------------
(* Vocabulary of the properties *)

Primitives == {"+", "-", "<", ">", ".", ","}

Brackets == {"[", "]"}

Count(s, set) == Cardinality({i \in 1..Len(s) : s[i] \in set})

\* bracket depth of s after its first i characters
DepthAt(s, i) ==
  Cardinality({j \in 1..i : s[j] = "["}) - Cardinality({j \in 1..i : s[j] = "]"})

WellNested(s) ==
  /\ \A i \in 1..Len(s) : DepthAt(s, i) >= 0
  /\ DepthAt(s, Len(s)) = 0

SourceDepth(s) ==
  CHOOSE d \in 0..Len(s) :
    /\ \E i \in 0..Len(s) : DepthAt(s, i) = d
    /\ \A i \in 0..Len(s) : DepthAt(s, i) <= d

RECURSIVE Leaves(_)
Leaves(nodes) ==
  IF nodes = <<>> THEN 0
  ELSE (IF Head(nodes).leaf THEN 1 ELSE Leaves(Head(nodes).body))
       + Leaves(Tail(nodes))

RECURSIVE PrimitiveLeaves(_)
PrimitiveLeaves(nodes) ==
  IF nodes = <<>> THEN 0
  ELSE (IF Head(nodes).leaf
          THEN (IF Head(nodes).c \in Primitives THEN 1 ELSE 0)
          ELSE PrimitiveLeaves(Head(nodes).body))
       + PrimitiveLeaves(Tail(nodes))

RECURSIVE AstDepth(_)
AstDepth(nodes) ==
  IF nodes = <<>> THEN 0
  ELSE LET h == IF Head(nodes).leaf THEN 0 ELSE 1 + AstDepth(Head(nodes).body)
           t == AstDepth(Tail(nodes))
       IN  IF h > t THEN h ELSE t

\* the text a tree stands for: a leaf is its character, a loop its bracketed
\* body
RECURSIVE Unparse(_)
Unparse(nodes) ==
  IF nodes = <<>> THEN <<>>
  ELSE (IF Head(nodes).leaf THEN <<Head(nodes).c>>
        ELSE <<"[">> \o Unparse(Head(nodes).body) \o <<"]">>)
       \o Unparse(Tail(nodes))

Parsed == phase # "start"

Lowered == phase \in {"run", "halted"}

\* main is about to execute an operation of kind o, and does
Executes(o) ==
  /\ phase = "run"
  /\ pc \in 1..Len(prog)
  /\ prog[pc].op \in o
  /\ steps' = steps + 1

OtherCellsKept ==
  \A j \in ((DOMAIN tape) \cup (DOMAIN tape')) \ {index} :
    Cell(tape', j) = Cell(tape, j)

PrimitiveOps(p) == Cardinality({i \in 1..Len(p) : p[i].op \in Primitives})

\* a closing marker with nothing open before it
HasStray(s) == \E i \in 1..Len(s) : DepthAt(s, i) < 0

StrayAt(s) == CHOOSE i \in 1..Len(s) :
  DepthAt(s, i) < 0 /\ \A j \in 1..(i - 1) : DepthAt(s, j) >= 0

BeforeStray(s) == SubSeq(s, 1, StrayAt(s) - 1)

----------------------------------------------------------------------------
(* C1 *)

\* C1: a source with more opening than closing loop markers is rejected by
\* parse: no AST is ever returned for it and lowering never starts.
C1_MalformedRejected ==
  (Count(src, {"["}) > Count(src, {"]"})) => phase = "start"

----------------------------------------------------------------------------
(* C2 *)

----------------------------------------------------------------------------
(* C3 *)

\* C3: a move right stores (index + 1) mod 30000 and a move left stores
\* (index - 1) mod 30000 into the index, and no tape cell changes.
C3_MoveIsModulo ==
  [][ /\ Executes({">"}) => index' = (index + 1) % TAPE_SIZE /\ tape' = tape
      /\ Executes({"<"}) => index' = (index - 1) % TAPE_SIZE /\ tape' = tape
    ]_vars

----------------------------------------------------------------------------
(* C4 *)

\* C4: an increment stores (v + 1) mod 256 and a decrement (v - 1) mod 256
\* into the current cell, whatever v in 0..255 it holds; the run goes on to
\* the next operation, and the index and every other cell are unchanged.
C4_CellWraps ==
  [][ Executes({"+", "-"}) =>
        LET v == Cell(tape, index)
            d == IF prog[pc].op = "+" THEN 1 ELSE -1
        IN  /\ v \in 0..255
            /\ Cell(tape', index) = (v + d) % 256
            /\ index' = index
            /\ OtherCellsKept
            /\ phase' = "run" /\ pc' = pc + 1 /\ status' = status
    ]_vars

C4_Witness ==
  /\ phase = "halted"
  /\ src = <<">", ",", "+", "<", ".">>
  /\ stdin = <<255>>
  /\ index = 0
  /\ tape = EmptyTape

----------------------------------------------------------------------------
(* C5 *)

\* C5: an input stores 0 in the current cell when getchar returns the
\* end-of-input sentinel and the byte b when it returns b in 0..255; only
\* the current cell changes and the run goes on to the next operation.
C5_InputStores ==
  [][ Executes({","}) =>
        /\ Cell(tape', index) = (IF rd >= Len(stdin) THEN 0 ELSE stdin[rd + 1])
        /\ OtherCellsKept
        /\ index' = index /\ out' = out
        /\ phase' = "run" /\ pc' = pc + 1
    ]_vars

C5_Witness ==
  /\ phase = "halted"
  /\ src = <<"+", ",", ".">>
  /\ stdin = <<>>
  /\ out = <<0>>

----------------------------------------------------------------------------
(* C6 *)

\* C6: every lowered loop is a pre-test loop.  For the loop whose test is at
\* t and whose successor is at e: control comes into the loop only at t,
\* reaches the first operation of the body only from t with a non-zero cell,
\* goes from t to e when the cell is zero, goes from the end of the body back
\* to t, and leaves the loop only from t with a zero cell, to e.
C6_PreTestLoop ==
  [][ (phase = "run" /\ steps' = steps + 1) =>
        \A t \in 1..Len(prog) : prog[t].op = "cbranch" =>
          LET e == prog[t].a
              inside(p) == p \in t..(e - 1)
              zero == Cell(tape, index) = 0
          IN  /\ (~inside(pc) /\ inside(pc')) => pc' = t
              /\ (pc' = t + 1) => (pc = t /\ ~zero)
              /\ (pc = t /\ zero) => pc' = e
              /\ (pc = t /\ ~zero) => pc' = t + 1
              /\ (pc = e - 1) => pc' = t
              /\ (inside(pc) /\ ~inside(pc') /\ phase' = "run")
                   => (pc = t /\ zero /\ pc' = e)
    ]_vars

C6_Witness ==
  /\ phase = "halted"
  /\ src = <<"+","+","[",">","+","[","-","]","+","[","-","]","<","-","]",".">>
  /\ out = <<0>>

----------------------------------------------------------------------------
(* C7 *)

\* C7: the program generated from ++++++++[>++++++++<-]>+. ends, having
\* written exactly the one byte 65.
C7_PrintsA == (src = SrcA) ~> (phase = "halted" /\ out = <<65>>)

C7_Witness == src = SrcA /\ phase = "halted" /\ out = <<65>>

----------------------------------------------------------------------------
(* C8 *)

\* C8: the operation after the last lowered instruction returns status 0 and
\* ends the run; the program of the empty source is that operation alone,
\* so it returns 0 at once, having written and read nothing.
C8_ReturnsZero ==
  /\ [](Lowered => prog[Len(prog)].op = "ret")
  /\ []((phase = "halted") => (status = 0 /\ pc = Len(prog)))
  /\ []((Lowered /\ src = <<>>) => (pc = Len(prog) /\ out = <<>> /\ rd = 0))
  /\ [][ (phase = "run" /\ pc = Len(prog) /\ steps' = steps + 1) =>
           (phase' = "halted" /\ status' = 0 /\ out' = out /\ rd' = rd)
       ]_vars

C8_Witness ==
  /\ src = <<>>
  /\ phase = "halted"
  /\ status = 0
  /\ steps = 1

----------------------------------------------------------------------------
(* C9 *)

\* C9: a closing marker with nothing open before it ends the parse: the tree
\* is exactly the text before the marker, and the generated program is the
\* one generated from that text alone.
C9_StrayCloseEndsParse ==
  (Parsed /\ HasStray(src)) =>
    /\ Unparse(ast) = BeforeStray(src)
    /\ ast = parse(BeforeStray(src), 1, <<>>).result
    /\ Lowered => prog = bf_to_ir(parse(BeforeStray(src), 1, <<>>).result)

C9_Witness ==
  /\ phase = "halted"
  /\ HasStray(src)
  /\ StrayAt(src) > 1
  /\ \E i \in (StrayAt(src) + 1)..Len(src) : src[i] \in Primitives
  /\ \E i \in 1..StrayAt(src) : src[i] = "["

----------------------------------------------------------------------------
(* C10 *)

\* C10: an output passes the current cell's value v, a number in 0..255, to
\* putchar exactly once, and changes neither the tape nor the index.
C10_OutputZeroExtends ==
  [][ Executes({"."}) =>
        /\ Cell(tape, index) \in 0..255
        /\ out' = Append(out, Cell(tape, index))
        /\ tape' = tape /\ index' = index
    ]_vars

C10_Witness ==
  /\ phase = "halted"
  /\ src = <<",", "+", ".">>
  /\ stdin = <<127>>
  /\ out = <<128>>

====
